---- MODULE Spec2Model ----
(***************************************************************************)
(* fqstat: scan matched FASTQ files, count per file the records whose      *)
(* sequence is longer than num_nucleotides, store the result mapping as    *)
(* scan-<n>_nucleotides.json and, unless quiet, print it as a table.       *)
(* Model of src/fqstat/fqstat.py, function fqstat() (lines 46-113).        *)
(***************************************************************************)
EXTENDS Integers, Sequences, FiniteSets, TLC

\* ---------------------------------------------------------------- bounds
\* most paths a search result holds
MaxFiles == 3
\* most records the parser yields for one file
MaxRecords == 2

\* --------------------------------------------------------------- inputs
\* argparse default of --nucleotides
DefaultNucleotides == 30
\* thresholds the command line passes (the default and a second one)
Thresholds == {25, DefaultNucleotides}
\* sequence lengths of the records in the files: with the two thresholds
\* they are below, equal to and above the cutoff
Lengths == {25, 35}
\* the files under root_dir: two directories holding a file of the same stem
Paths == { [dir |-> "a", stem |-> "x"],
           [dir |-> "a", stem |-> "y"],
           [dir |-> "b", stem |-> "x"] }
Stems == { p.stem : p \in Paths }

\* root_dir.glob(pattern) as a list: distinct paths in any order
GlobResults ==
    { s \in UNION { [1..k -> Paths] : k \in 0..MaxFiles } :
        \A a, b \in DOMAIN s : a /= b => s[a] /= s[b] }

VARIABLES
    num_nucleotides,  \* argument: the cutoff
    quiet,            \* argument: suppress the table
    pc,               \* position in fqstat()
    matched_paths,    \* result of search()
    i,                \* index in matched_paths of the file of the for loop
    total_records,    \* counter of the current file
    total_targets,    \* counter of the current file
    data,             \* the dict: key -> entry
    data_order,       \* the dict's iteration order (insertion order of keys)
    handles,          \* input files currently open
    open_calls,       \* paths open(path, 'r') was called on, in call order
    yielded,          \* per path, the record lengths SeqIO.parse yielded
    json_writes,      \* documents written to scan-<n>_nucleotides.json
    stdout,           \* tables printed
    stderr,           \* exit message or name of the uncaught exception
    exit_code         \* process exit status

vars == << num_nucleotides, quiet, pc, matched_paths, i, total_records,
           total_targets, data, data_order, handles, open_calls, yielded,
           json_writes, stdout, stderr, exit_code >>

\* ------------------------------------------------------------- helpers
Range(s) == { s[k] : k \in DOMAIN s }

\* `not matched_paths`
NoFilesNever(paths) == FALSE
NoFiles(paths) == paths = << >>

\* the for loop over matched_paths: next file, or fall through to the report
LoopNext(k, paths) == IF k <= Len(paths) THEN "open" ELSE "write"

\* `len(record.seq) > num_nucleotides`
IsTargetInclusive(len, n) == len >= n
IsTargetBelow(len, n) == len < n
IsTarget(len, n) == len > n

\* body of the record loop: one record consumed
AccStepElse(acc, len, n) ==
    IF IsTarget(len, n)
    THEN [total_records |-> acc.total_records, total_targets |-> acc.total_targets + 1]
    ELSE [total_records |-> acc.total_records + 1, total_targets |-> acc.total_targets]
AccStep(acc, len, n) ==
    [ total_records |-> acc.total_records + 1,
      total_targets |-> IF IsTarget(len, n) THEN acc.total_targets + 1
                                             ELSE acc.total_targets ]

\* the counters after the record loop has consumed recs, from 0 and 0
RECURSIVE Accumulate(_, _)
Accumulate(recs, n) ==
    IF recs = << >>
    THEN [total_records |-> 0, total_targets |-> 0]
    ELSE AccStep(Accumulate(SubSeq(recs, 1, Len(recs) - 1), n), recs[Len(recs)], n)

\* round(total_targets/total_records, 4) in units of 1/10000, for
\* total_records > 0; a tie goes to the even digit (no quotient of the
\* model's counters is a tie)
Round4(t, r) ==
    LET q   == (10000 * t) \div r
        rem == (10000 * t) % r
    IN  IF 2 * rem > r THEN q + 1
        ELSE IF 2 * rem < r THEN q
        ELSE IF q % 2 = 0 THEN q ELSE q + 1

\* the dict value built for one file
Entry(path, t, r) ==
    [ path |-> path, total_targets |-> t, total_records |-> r,
      percent |-> Round4(t, r) ]

\* data[key] = entry: the values
StoreEntryKeepFirst(d, key, entry) ==
    [ k \in DOMAIN d \cup {key} |-> IF k \in DOMAIN d THEN d[k] ELSE entry ]
StoreEntry(d, key, entry) ==
    [ k \in DOMAIN d \cup {key} |-> IF k = key THEN entry ELSE d[k] ]

\* data[key] = entry: the iteration order (a key already present keeps its
\* position)
InsertOrderMoveToEnd(order, key) ==
    Append(SelectSeq(order, LAMBDA k : k /= key), key)
InsertOrder(order, key) ==
    IF key \in Range(order) THEN order ELSE Append(order, key)

\* leaving the `with open(path, 'r') as f` block, normally or by exception
WithExitLeak(h, path) == h
WithExit(h, path) == h \ {path}

\* an exception raised inside the for loop: nothing catches it
PropagateSwallowed(exc) == "write"
Propagate(exc) == "crashed"

\* `if not quiet`
ShowTableAlways(q) == TRUE
ShowTable(q) == ~q

\* rows added to the table: one per item of data, in iteration order; the
\* last column is percent*100 (units of 1/10000 kept)
TableRows(d, order) ==
    [ k \in 1..Len(order) |->
        << order[k], d[order[k]].total_targets, d[order[k]].total_records,
           d[order[k]].percent * 100 >> ]

\* json.dump(data, f): the object with its members in iteration order
JsonDoc(d, order) ==
    [ k \in 1..Len(order) |-> << order[k], d[order[k]] >> ]

\* ---------------------------------------------------------------- Init
Init ==
    /\ num_nucleotides \in Thresholds
    /\ quiet \in BOOLEAN
    /\ pc = "search"
    /\ matched_paths = << >>
    /\ i = 0
    /\ total_records = 0
    /\ total_targets = 0
    /\ data = << >>
    /\ data_order = << >>
    /\ handles = {}
    /\ open_calls = << >>
    /\ yielded = [ p \in Paths |-> << >> ]
    /\ json_writes = << >>
    /\ stdout = << >>
    /\ stderr = ""
    /\ exit_code = 0

\* ------------------------------------------------------------- actions
\* search() returns; an empty list exits with 'No files found.'
Search ==
    /\ pc = "search"
    /\ \E m \in GlobResults :
         /\ matched_paths' = m
         /\ IF NoFiles(m)
            THEN /\ pc' = "exited"
                 /\ stderr' = "No files found."
                 /\ exit_code' = 1
                 /\ i' = i
            ELSE /\ pc' = LoopNext(1, m)
                 /\ i' = 1
                 /\ UNCHANGED << stderr, exit_code >>
    /\ UNCHANGED << num_nucleotides, quiet, total_records, total_targets, data,
                    data_order, handles, open_calls, yielded, json_writes, stdout >>

\* search() re-raises what glob raised
SearchFail ==
    /\ pc = "search"
    /\ pc' = "crashed"
    /\ stderr' = "Error: search"
    /\ exit_code' = 1
    /\ UNCHANGED << num_nucleotides, quiet, matched_paths, i, total_records,
                    total_targets, data, data_order, handles, open_calls, yielded,
                    json_writes, stdout >>

\* open(path, 'r') succeeds; the counters start at 0
OpenFile ==
    /\ pc = "open"
    /\ open_calls' = Append(open_calls, matched_paths[i])
    /\ handles' = handles \cup {matched_paths[i]}
    /\ total_records' = 0
    /\ total_targets' = 0
    /\ yielded' = [yielded EXCEPT ![matched_paths[i]] = << >>]
    /\ pc' = "parse"
    /\ UNCHANGED << num_nucleotides, quiet, matched_paths, i, data, data_order,
                    json_writes, stdout, stderr, exit_code >>

\* open(path, 'r') raises OSError
OpenFail ==
    /\ pc = "open"
    /\ open_calls' = Append(open_calls, matched_paths[i])
    /\ pc' = Propagate("OSError")
    /\ stderr' = "OSError"
    /\ exit_code' = 1
    /\ UNCHANGED << num_nucleotides, quiet, matched_paths, i, total_records,
                    total_targets, data, data_order, handles, yielded,
                    json_writes, stdout >>

\* the parser yields one more record
ParseRecord ==
    /\ pc = "parse"
    /\ Len(yielded[matched_paths[i]]) < MaxRecords
    /\ \E len \in Lengths :
         LET acc == AccStep([total_records |-> total_records,
                             total_targets |-> total_targets], len, num_nucleotides)
         IN  /\ yielded' = [yielded EXCEPT ![matched_paths[i]] = Append(@, len)]
             /\ total_records' = acc.total_records
             /\ total_targets' = acc.total_targets
    /\ UNCHANGED << num_nucleotides, quiet, pc, matched_paths, i, data, data_order,
                    handles, open_calls, json_writes, stdout, stderr, exit_code >>

\* the parser raises ValueError on a malformed record; the with block closes f
ParseFail ==
    /\ pc = "parse"
    /\ handles' = WithExit(handles, matched_paths[i])
    /\ pc' = Propagate("ValueError")
    /\ stderr' = "ValueError"
    /\ exit_code' = 1
    /\ UNCHANGED << num_nucleotides, quiet, matched_paths, i, total_records,
                    total_targets, data, data_order, open_calls, yielded,
                    json_writes, stdout >>

\* the parser is exhausted: the entry is built and stored, the with block
\* closes f, the for loop moves on; 0 records make the division raise
StoreResult ==
    /\ pc = "parse"
    /\ handles' = WithExit(handles, matched_paths[i])
    /\ IF total_records = 0
       THEN /\ pc' = Propagate("ZeroDivisionError")
            /\ stderr' = "ZeroDivisionError"
            /\ exit_code' = 1
            /\ UNCHANGED << data, data_order, i >>
       ELSE /\ data' = StoreEntry(data, matched_paths[i].stem,
                                  Entry(matched_paths[i], total_targets, total_records))
            /\ data_order' = InsertOrder(data_order, matched_paths[i].stem)
            /\ i' = i + 1
            /\ pc' = LoopNext(i + 1, matched_paths)
            /\ UNCHANGED << stderr, exit_code >>
    /\ UNCHANGED << num_nucleotides, quiet, matched_paths, total_records,
                    total_targets, open_calls, yielded, json_writes, stdout >>

\* the report file is opened, json.dump(data, f) written, the file closed
WriteJson ==
    /\ pc = "write"
    /\ json_writes' = Append(json_writes, JsonDoc(data, data_order))
    /\ pc' = IF ShowTable(quiet) THEN "table" ELSE "done"
    /\ UNCHANGED << num_nucleotides, quiet, matched_paths, i, total_records,
                    total_targets, data, data_order, handles, open_calls, yielded,
                    stdout, stderr, exit_code >>

\* the table is built from data.items() and printed
PrintTable ==
    /\ pc = "table"
    /\ stdout' = Append(stdout, TableRows(data, data_order))
    /\ pc' = "done"
    /\ UNCHANGED << num_nucleotides, quiet, matched_paths, i, total_records,
                    total_targets, data, data_order, handles, open_calls, yielded,
                    json_writes, stderr, exit_code >>

Next ==
    \/ Search
    \/ SearchFail
    \/ OpenFile
    \/ OpenFail
    \/ ParseRecord
    \/ ParseFail
    \/ StoreResult
    \/ WriteJson
    \/ PrintTable

Spec == Init /\ [][Next]_vars

TypeOK ==
    /\ num_nucleotides \in Thresholds
    /\ quiet \in BOOLEAN
    /\ pc \in {"search", "open", "parse", "write", "table", "done", "exited", "crashed"}
    /\ matched_paths \in GlobResults
    /\ i \in 0..(MaxFiles + 1)
    /\ total_records \in 0..MaxRecords
    /\ total_targets \in 0..MaxRecords
    /\ DOMAIN data \subseteq Stems
    /\ Range(data_order) \subseteq Stems
    /\ handles \subseteq Paths
    /\ exit_code \in {0, 1}

\* ------------------------------------------------------- derived notions
\* number of files whose entry has been stored (the for loop's completed
\* iterations)
Processed == IF i = 0 THEN 0 ELSE i - 1

\* the counters agree with the fold of the loop body over the records read
AccumulateAgrees ==
    pc = "parse" =>
        Accumulate(yielded[matched_paths[i]], num_nucleotides) =
            [total_records |-> total_records, total_targets |-> total_targets]

\* position of a path in the search result
Pos(p) == CHOOSE j \in 1..Len(matched_paths) : matched_paths[j] = p

\* first and last processed file that has stem k
FirstPos(k) ==
    CHOOSE j \in 1..Processed :
        /\ matched_paths[j].stem = k
        /\ \A h \in 1..Processed : matched_paths[h].stem = k => j <= h
LastPos(k) ==
    CHOOSE j \in 1..Processed :
        /\ matched_paths[j].stem = k
        /\ \A h \in 1..Processed : matched_paths[h].stem = k => h <= j

\* search() returned a list (it did not raise)
SearchReturned == pc /= "search" /\ stderr /= "Error: search"

\* thresholds compared with each other for one record sequence
CompareThresholds == {0, 24, 25, 30, 35, 36}

\* ---------------------------------------------------------------- claims

\* C1: every stored entry's total_records is the number of records the
\* parser yielded for the entry's file and its total_targets the number of
\* those records strictly longer than num_nucleotides, whatever files were
\* processed before it.
C1_CountsExact ==
    \A k \in DOMAIN data :
        LET recs == yielded[data[k].path]
        IN  /\ data[k].total_records = Len(recs)
            /\ data[k].total_targets =
                   Cardinality({ j \in DOMAIN recs : recs[j] > num_nucleotides })

\* Scenario A as the second file of a run: lengths 25 and 35, threshold 30
C1_Witness ==
    /\ num_nucleotides = 30
    /\ Processed >= 2
    /\ yielded[matched_paths[1]] = << 35, 35 >>
    /\ yielded[matched_paths[2]] = << 25, 35 >>
    /\ matched_paths[2].stem \in DOMAIN data
    /\ data[matched_paths[2].stem] =
           [ path |-> matched_paths[2], total_targets |-> 1, total_records |-> 2,
             percent |-> 5000 ]

\* C2: when search() returns no path the run has exited with status non-zero
\* and the message 'No files found.', and no file was opened, no report
\* written, no table printed.
C2_NoMatchExits ==
    (SearchReturned /\ matched_paths = << >>) =>
        /\ pc = "exited"
        /\ stderr = "No files found."
        /\ exit_code /= 0
        /\ open_calls = << >>
        /\ json_writes = << >>
        /\ stdout = << >>

C2_Witness == pc = "exited" /\ matched_paths = << >> /\ exit_code = 1

\* C3: a file that yields zero records does not make the run crash on the
\* fraction (no division by zero).
C3_ZeroRecordsDefined == stderr /= "ZeroDivisionError"

\* C4: when opening or parsing a matched file fails the run has aborted at
\* that file: no later file was opened, no report written, no table printed.
C4_FailureAborts ==
    stderr \in {"OSError", "ValueError"} =>
        /\ pc = "crashed"
        /\ exit_code /= 0
        /\ open_calls = SubSeq(matched_paths, 1, i)
        /\ json_writes = << >>
        /\ stdout = << >>

\* a parse failure after a stored file, with a file still to come
C4_Witness ==
    /\ stderr = "ValueError"
    /\ pc = "crashed"
    /\ i = 2
    /\ Len(matched_paths) = 3
    /\ DOMAIN data /= {}

\* C5: the report is written at most once and only after the last file was
\* processed; a run that ends normally has written it exactly once, quiet or
\* not; the table is printed iff quiet is false, and only after the report.
C5_ReportOnce ==
    /\ Len(json_writes) <= 1
    /\ json_writes /= << >> =>
           /\ Processed = Len(matched_paths)
           /\ Len(open_calls) = Len(matched_paths)
           /\ json_writes[1] = JsonDoc(data, data_order)
    /\ pc = "done" =>
           /\ Len(json_writes) = 1
           /\ (stdout /= << >>) <=> ~quiet
    /\ stdout /= << >> =>
           /\ Len(stdout) = 1
           /\ Len(json_writes) = 1
           /\ ~quiet

C5_Witness ==
    /\ pc = "done"
    /\ quiet
    /\ Len(json_writes) = 1
    /\ stdout = << >>
    /\ Len(matched_paths) = 2

\* C6: while a file's records are accumulated, and in every stored entry,
\* 0 <= total_targets <= total_records, and during the accumulation
\* total_records is the number of records consumed so far.
C6_CountersBounded ==
    /\ pc = "parse" =>
           /\ 0 <= total_targets
           /\ total_targets <= total_records
           /\ total_records = Len(yielded[matched_paths[i]])
    /\ \A k \in DOMAIN data :
           /\ 0 <= data[k].total_targets
           /\ data[k].total_targets <= data[k].total_records

\* two records consumed, one of them a target
C6_Witness ==
    /\ pc = "parse"
    /\ total_records = 2
    /\ total_targets = 1

\* C7: for the records of one file, the count of targets does not grow with
\* the threshold, and the count of records is the same for every threshold.
C7_MonotoneInThreshold ==
    \A acc \in { [ p \in Paths, t \in CompareThresholds |-> Accumulate(yielded[p], t) ] } :
        \A p \in Paths : \A t1, t2 \in CompareThresholds :
            t1 <= t2 =>
                /\ acc[p, t2].total_targets <= acc[p, t1].total_targets
                /\ acc[p, t2].total_records = acc[p, t1].total_records

\* a file whose count of targets falls from 2 to 1 to 0 as the threshold grows
C7_Witness ==
    \E p \in Paths :
        /\ yielded[p] = << 25, 35 >>
        /\ Accumulate(yielded[p], 24).total_targets = 2
        /\ Accumulate(yielded[p], 30).total_targets = 1
        /\ Accumulate(yielded[p], 35).total_targets = 0
        /\ AccumulateAgrees

\* C8: at most one input file is open, and only while its records are read:
\* none is open when the next path is opened, when the report is written, or
\* after parsing or the result computation failed.
C8_ScopedHandles ==
    /\ Cardinality(handles) <= 1
    /\ pc = "parse" => handles = {matched_paths[i]}
    /\ pc /= "parse" => handles = {}

\* the result computation failed on the second file
C8_Witness ==
    /\ pc = "crashed"
    /\ stderr = "ZeroDivisionError"
    /\ Len(open_calls) = 2
    /\ handles = {}

\* C9 as stated: the entries of the mapping, in iteration order, are in the
\* discovery order of their files.
C9_IterationIsDiscoveryOrder ==
    \A a, b \in 1..Len(data_order) :
        a < b => Pos(data[data_order[a]].path) < Pos(data[data_order[b]].path)

\* C9 amended: files are opened in the order search() returned them; the
\* mapping iterates its keys in the order in which each stem was first
\* processed; a printed table has one row per entry in that order.
C9_FirstSeenOrder ==
    /\ open_calls = SubSeq(matched_paths, 1, Len(open_calls))
    /\ Len(open_calls) \in {Processed, Processed + 1}
    /\ Range(data_order) = { matched_paths[j].stem : j \in 1..Processed }
    /\ \A a, b \in 1..Len(data_order) :
           a < b => FirstPos(data_order[a]) < FirstPos(data_order[b])
    /\ stdout /= << >> =>
           /\ Len(stdout[1]) = Len(data_order)
           /\ \A k \in 1..Len(data_order) :
                  /\ stdout[1][k][1] = data_order[k]
                  /\ stdout[1][k][2] = data[data_order[k]].total_targets
                  /\ stdout[1][k][3] = data[data_order[k]].total_records

\* a table printed for three files of which the first and third share a stem
C9_Witness ==
    /\ stdout /= << >>
    /\ Len(matched_paths) = 3
    /\ matched_paths[1].stem = matched_paths[3].stem
    /\ Len(stdout[1]) = 2
    /\ data[data_order[1]].path = matched_paths[3]

\* C10: the mapping has exactly one entry per distinct stem of the processed
\* files, and the entry of a stem holds the path and counts of the last
\* processed file with that stem; it can have fewer entries than files.
C10_LastWriteWins ==
    /\ DOMAIN data = { matched_paths[j].stem : j \in 1..Processed }
    /\ Range(data_order) = DOMAIN data
    /\ Len(data_order) = Cardinality(DOMAIN data)
    /\ Len(data_order) <= Processed
    /\ \A k \in DOMAIN data :
           LET p == matched_paths[LastPos(k)]
           IN  /\ data[k].path = p
               /\ data[k].total_records = Len(yielded[p])
               /\ data[k].total_targets =
                      Accumulate(yielded[p], num_nucleotides).total_targets

\* two files of one stem with different counts: one entry, of the second
C10_Witness ==
    /\ Processed = 2
    /\ matched_paths[1].stem = matched_paths[2].stem
    /\ Len(data_order) = 1
    /\ data[data_order[1]].path = matched_paths[2]
    /\ Len(yielded[matched_paths[1]]) = 1
    /\ data[data_order[1]].total_records = 2
====
